---- MODULE Spec2Model ----
(***************************************************************************)
(* Model of the NyayaSahay mobile client:                                  *)
(*   mobile_app/app/chat.js      ChatScreen (handleSend, handleNewChat,    *)
(*                               loadUser, handleLogout)                   *)
(*   mobile_app/app/auth.js      AuthScreen (handleSubmit)                 *)
(*   mobile_app/app/_layout.js   CustomDrawerContent (loadUser,            *)
(*                               loadSessions, handleLogout)               *)
(*   mobile_app/services/api.js  sendChatMessage, getAuthHeaders, the      *)
(*                               credential record, the session catalog    *)
(*   mobile_app/README.md        ChatBubble (getConfidence)                *)
(*                                                                         *)
(* Spec and FairSpec are the chat turn protocol; StoreSpec is the          *)
(* credential record with the functions that read and write it;            *)
(* CatalogSpec is the session catalog; BubbleSpec is the rendering of the  *)
(* bubbles of a log.  NoResetSpec is Spec without New Chat, IdSpec has a   *)
(* clock that advances by milliseconds.  FormSpec is the sign-in screen    *)
(* alone, AccountSpec a sign-in with the loading of the stored user and    *)
(* the logout, LogoutSpec the logout around a turn, DrawerSpec the session *)
(* list of the drawer.                                                     *)
(*                                                                         *)
(* React state is modelled as it behaves: the state cells (messages,       *)
(* inputValue, isLoading, sessionId) are written by the setters, while a   *)
(* handler reads the values captured by the closure of the last render     *)
(* (variable rendered).  Render is the step in which React re-invokes      *)
(* ChatScreen and the handlers get fresh closures.  Handlers may run back  *)
(* to back on one closure; React commits a pending render before the event *)
(* loop delivers the next timer or network callback.                       *)
(*                                                                         *)
(* Optional JSON fields and nullable values are sequences of length 0      *)
(* (absent / null / undefined) or 1 (present).  Texts are sequences of     *)
(* tokens so that trimming and template interpolation are computed.        *)
(***************************************************************************)
EXTENDS Integers, Sequences, FiniteSets, TLC

VARIABLES messages, inputValue, isLoading, sessionId, rendered,
          calls, now, store, op, ret, bubbles,
          route, mounted, chatUser, auth, submits, drawer, tasks

vars == <<messages, inputValue, isLoading, sessionId, rendered,
          calls, now, store, op, ret, bubbles,
          route, mounted, chatUser, auth, submits, drawer, tasks>>

\* the state outside a chat turn: the route shown, the screens mounted, the
\* user loaded by the chat screen, the sign-in form and its submissions,
\* the drawer, and the calls of the chat screen and the drawer that are
\* waiting for a result
screens == <<route, mounted, chatUser, auth, submits, drawer, tasks>>

----------------------------------------------------------------------------
(* Bounds *)

\* accepted submits (calls of sendChatMessage) in one behaviour
MaxTurns == 2

\* citations of one answer
MaxSources == 4

\* messages of a log whose bubbles are rendered
MaxLog == 2

\* the last millisecond shown by the clock of the specification of ids
MaxClock == 2

(* Program constants *)

\* setTimeout(() => controller.abort(), 120000)
TIMEOUT_MS == 120000

----------------------------------------------------------------------------
(* Values *)

None == <<>>
Some(v) == <<v>>

\* JavaScript truthiness of an optional string field (null, undefined, "")
TruthyStr(opt) == opt # None /\ opt[1] # ""

\* JavaScript truthiness of an optional boolean field
TruthyBool(opt) == opt # None /\ opt[1]

\* a || b  for an optional field a and a plain default b
OrElse(opt, default) == IF opt # None THEN opt[1] ELSE default

SP == " "

\* what the user may have typed into the TextInput
Question == "What is Section 302 of IPC?"

Inputs == { <<>>, <<SP>>, <<SP, Question, SP>> }

RECURSIVE trimStart(_)
trimStart(s) ==
    IF s # <<>> /\ Head(s) = SP THEN trimStart(Tail(s)) ELSE s

RECURSIVE trimEnd(_)
trimEnd(s) ==
    IF s # <<>> /\ s[Len(s)] = SP THEN trimEnd(SubSeq(s, 1, Len(s) - 1)) ELSE s

\* String.prototype.trim
trim(s) == trimEnd(trimStart(s))

\* getTimestamp: the clock formatted to hour and minute
getTimestamp(t) == t \div 60000

----------------------------------------------------------------------------
(* SecureStore record 'nyayasahay_user' and getAuthHeaders *)

KeyOrder == <<"email", "name", "token">>

RECURSIVE stringifyFrom(_, _)
stringifyFrom(user, k) ==
    IF k > Len(KeyOrder) THEN <<>>
    ELSE (IF KeyOrder[k] \in DOMAIN user
             THEN <<KeyOrder[k], user[KeyOrder[k]]>>
             ELSE <<>>) \o stringifyFrom(user, k + 1)

\* JSON.stringify of a user record: the fields that are defined, as text
JSONstringify(user) == stringifyFrom(user, 1)

\* does JSON.parse accept the text
JSONparses(text) == Len(text) % 2 = 0

\* JSON.parse of a text that parses: the record it denotes
JSONparse(text) ==
    [k \in {text[2 * j - 1] : j \in 1..(Len(text) \div 2)} |->
        text[2 * (CHOOSE j \in 1..(Len(text) \div 2) : text[2 * j - 1] = k)]]

StoredUser == [email |-> "user@example.com", token |-> "tok1"]

NoHeaders == <<>>

\* how a call of a function of api.js ended: it returned value, or it threw
\* an Error with the message value
Returned(v) == [outcome |-> "returned", value |-> v]
Threw(message) == [outcome |-> "threw", value |-> message]

\* the last call of a function of api.js that has settled: ok is whether
\* its SecureStore operation resolved, arg its other input
Call(fn, ok, arg, result) ==
    [fn |-> fn, ok |-> ok, arg |-> arg,
     outcome |-> result.outcome, value |-> result.value]

\* nothing has been called yet
NoRet == Call("none", TRUE, None, [outcome |-> "none", value |-> None])

getAuthHeadersAnyRecord(readOk) ==
    IF ~readOk THEN NoHeaders
    ELSE IF store = None \/ store[1] = <<>> THEN NoHeaders
    ELSE IF ~JSONparses(store[1]) THEN NoHeaders
    ELSE LET user == JSONparse(store[1]) IN
         [Authorization |->
            <<"Bearer ", IF "token" \in DOMAIN user THEN user["token"]
                                                    ELSE "undefined">>]

\* getAuthHeaders: readOk is whether SecureStore.getItemAsync resolved
getAuthHeaders(readOk) ==
    IF ~readOk THEN NoHeaders
    ELSE IF store = None \/ store[1] = <<>> THEN NoHeaders
    ELSE IF ~JSONparses(store[1]) THEN NoHeaders
    ELSE LET user == JSONparse(store[1]) IN
         IF "token" \in DOMAIN user /\ user["token"] # ""
            THEN [Authorization |-> <<"Bearer ", user["token"]>>]
            ELSE NoHeaders

----------------------------------------------------------------------------
(* Backend answers *)

S302 == [act |-> "IPC", section |-> "302"]

\* bodies of a successful POST /api/v1/chat: a complete one, one that has
\* only the answer and a session id, and a fallback without session id
FullResponse ==
    [answer |-> <<"Section 302 punishes murder">>, sources |-> Some(<<S302>>),
     is_fallback |-> Some(FALSE), latency_ms |-> Some(850),
     session_id |-> Some("abc123")]

BareResponse ==
    [answer |-> <<"It depends">>, sources |-> None, is_fallback |-> None,
     latency_ms |-> None, session_id |-> Some("xyz789")]

FallbackResponse ==
    [answer |-> <<"Not found">>, sources |-> Some(<<>>),
     is_fallback |-> Some(TRUE), latency_ms |-> Some(850),
     session_id |-> None]

Responses == {FullResponse, BareResponse, FallbackResponse}

\* response.status of the POST
Statuses == {200, 500}

\* response.ok
IsOk(status) == status >= 200 /\ status <= 299

\* the 'detail' field of an error body that is a JSON object: missing,
\* the empty string, or a text
Details == { None, Some(<<>>), Some(<<"Rate limit exceeded">>) }

\* bodies of a non-success response: text that is not JSON, the JSON value
\* null, and JSON objects
GarbageBody == [kind |-> "garbage", detail |-> None]
NullBody == [kind |-> "null", detail |-> None]
ObjectBody(detail) == [kind |-> "object", detail |-> detail]

ErrorBodies == {GarbageBody, NullBody} \cup {ObjectBody(d) : d \in Details}

\* response.json().catch(() => ({}))
errorData(body) == IF body.kind = "garbage" THEN ObjectBody(None) ELSE body

TimedOutMessage == <<"Request timed out. Please try again.">>
NetworkMessage == <<"Network request failed">>
ParseMessage == <<"JSON Parse error">>
\* the TypeError of reading a property of null
NullDetailMessage == <<"Cannot read property 'detail' of null">>

\* errorData.detail || `Server error: ${response.status}`
serverErrorMessage(detail, status) ==
    IF detail # None /\ detail[1] # <<>> THEN detail[1]
    ELSE <<"Server error: ", ToString(status)>>

\* the message of the error that lines 60-61 end in, for the body received
errorBodyMessage(body, status) ==
    IF errorData(body).kind = "null" THEN NullDetailMessage
    ELSE serverErrorMessage(errorData(body).detail, status)

----------------------------------------------------------------------------
(* Messages built by handleSend *)

userMessage(query, t) ==
    [id |-> t, role |-> "user", content |-> query, timestamp |-> getTimestamp(t)]

botMessageNeverFallback(response, t) ==
    [id |-> t + 1, role |-> "bot", content |-> response.answer,
     sources |-> OrElse(response.sources, <<>>),
     isFallback |-> FALSE,
     latency |-> response.latency_ms,
     timestamp |-> getTimestamp(t)]

botMessageNoSources(response, t) ==
    [id |-> t + 1, role |-> "bot", content |-> response.answer,
     sources |-> <<>>,
     isFallback |-> TruthyBool(response.is_fallback),
     latency |-> response.latency_ms,
     timestamp |-> getTimestamp(t)]

botMessage(response, t) ==
    [id |-> t + 1, role |-> "bot", content |-> response.answer,
     sources |-> OrElse(response.sources, <<>>),
     isFallback |-> TruthyBool(response.is_fallback),
     latency |-> response.latency_ms,
     timestamp |-> getTimestamp(t)]

errorContent(message) ==
    <<"I apologize, but I encountered an error: ">> \o message
        \o <<". Please try again.">>

errorMessageUnflagged(message, t) ==
    [id |-> t + 1, role |-> "bot", content |-> errorContent(message),
     isFallback |-> FALSE, timestamp |-> getTimestamp(t)]

errorMessage(message, t) ==
    [id |-> t + 1, role |-> "bot", content |-> errorContent(message),
     isFallback |-> TRUE, timestamp |-> getTimestamp(t)]

----------------------------------------------------------------------------
(* The screens beside the chat turn, as they are when the app has started *)

\* useState of AuthScreen: formData
EmptyForm ==
    [email |-> "", password |-> <<>>, name |-> "", confirmPassword |-> <<>>]

\* useState of AuthScreen; disabled is the isLoading of the last render,
\* which the submit button shows
AuthInit ==
    [mode |-> "signin", formData |-> EmptyForm, error |-> <<>>,
     isLoading |-> FALSE, disabled |-> FALSE]

\* useState of CustomDrawerContent; effectDue: user has changed and the
\* effect that depends on it has not run yet
DrawerInit ==
    [user |-> None, sessions |-> <<>>, loadingSessions |-> FALSE,
     effectDue |-> FALSE]

\* the chat screen is shown, nobody has signed in
ScreensInit ==
    /\ route = "/chat"
    /\ mounted = {"chat"}
    /\ chatUser = None
    /\ auth = AuthInit
    /\ submits = <<>>
    /\ drawer = DrawerInit
    /\ tasks = {}

----------------------------------------------------------------------------
(* ChatScreen state and the calls of sendChatMessage in flight *)

\* the values a handler created by the last render closes over
closure == [inputValue |-> inputValue, isLoading |-> isLoading,
            sessionId |-> sessionId]

canSendUnchecked(query, loading) == ~loading

\* if (!query || isLoading) return;
canSend(query, loading) == query # <<>> /\ ~loading

prependMessage(prev, message) == <<message>> \o prev

replaceLastMessage(prev, message) ==
    IF prev = <<>> THEN <<message>> ELSE [prev EXCEPT ![Len(prev)] = message]

\* setMessages(prev => [...prev, message])
appendMessage(prev, message) == Append(prev, message)

\* body: JSON.stringify({ query: query, session_id: sessionId })
requestBody(query, sid) == [query |-> query, session_id |-> sid]

adoptSessionIdOnce(current, responseSid) ==
    IF current = None /\ TruthyStr(responseSid) THEN responseSid ELSE current

\* if (response.session_id) setSessionId(response.session_id)
adoptSessionId(current, responseSid) ==
    IF TruthyStr(responseSid) THEN responseSid ELSE current

timerLeftArmed == "armed"

\* the timer after the fetch promise has resolved: clearTimeout(timeoutId)
timerAfterHeaders == "cleared"

loadingResetOnSuccessOnly(succeeded) == ~succeeded

\* finally { setIsLoading(false) }
loadingAfterSettle(succeeded) == FALSE

\* handleNewChat leaves isLoading as it is
loadingAfterNewChat(loading) == loading

\* a call of sendChatMessage(query, sid) started at time t; request is the
\* POST it has in flight, nposts the number of POSTs it has issued, body the
\* body of the non-success response whose status line has arrived, late
\* whether the response to a POST that was aborted is still to arrive
newCall(query, sid, t) ==
    [query |-> query, sessionId |-> sid, phase |-> "auth", aborted |-> FALSE,
     timer |-> "armed", start |-> t, status |-> 0, request |-> None,
     nposts |-> 0, body |-> None, late |-> FALSE]

\* a settled call: clearTimeout(timeoutId) has run and the locals are dead
doneCall(c) ==
    [query |-> <<>>, sessionId |-> None, phase |-> "done", aborted |-> FALSE,
     timer |-> "cleared", start |-> 0, status |-> 0, request |-> None,
     nposts |-> c.nposts, body |-> None, late |-> FALSE]

\* a call settled by controller.abort() while its POST was in flight: the
\* fetch promise is rejected, the response may still come in
abortedCall(c) == [doneCall(c) EXCEPT !.late = TRUE]

Active(i) == i \in 1..Len(calls) /\ calls[i].phase # "done"

\* no render is pending: the handlers close over the current state
Committed == rendered = closure

deadline(c) == c.start + TIMEOUT_MS

Init ==
    /\ messages = <<>>
    /\ inputValue = <<>>
    /\ isLoading = FALSE
    /\ sessionId = None
    /\ rendered = [inputValue |-> <<>>, isLoading |-> FALSE, sessionId |-> None]
    /\ calls = <<>>
    /\ now = 0
    /\ store = Some(JSONstringify(StoredUser))
    /\ op = "init"
    /\ ret = NoRet
    /\ bubbles = <<>>
    /\ ScreensInit

\* React re-invokes ChatScreen: the handlers close over the current state
Render ==
    /\ rendered # closure
    /\ rendered' = closure
    /\ op' = "render"
    /\ UNCHANGED <<messages, inputValue, isLoading, sessionId, calls,
                   now, store, ret, bubbles, screens>>

\* onChangeText={setInputValue}
onChangeText(text) ==
    /\ inputValue # text
    /\ inputValue' = text
    /\ op' = "onChangeText"
    /\ UNCHANGED <<messages, isLoading, sessionId, rendered, calls,
                   now, store, ret, bubbles, screens>>

\* handleSend up to its first suspension (await SecureStore.getItemAsync)
handleSend ==
    LET query == trim(rendered.inputValue) IN
    IF ~canSend(query, rendered.isLoading)
    THEN /\ op' = "handleSendRejected"
         /\ UNCHANGED <<messages, inputValue, isLoading, sessionId, rendered,
                        calls, now, store, ret, bubbles, screens>>
    ELSE /\ Len(calls) < MaxTurns
         /\ inputValue' = <<>>
         /\ messages' = appendMessage(messages, userMessage(query, now))
         /\ isLoading' = TRUE
         /\ calls' = Append(calls, newCall(query, rendered.sessionId, now))
         /\ op' = "handleSend"
         /\ UNCHANGED <<sessionId, rendered, now, store, ret, bubbles, screens>>

\* handleSend after sendChatMessage resolved with response
Succeed(i, response) ==
    /\ sessionId' = adoptSessionId(sessionId, response.session_id)
    /\ messages' = appendMessage(messages, botMessage(response, now))
    /\ isLoading' = loadingAfterSettle(TRUE)
    /\ calls' = [calls EXCEPT ![i] = doneCall(calls[i])]
    /\ op' = "succeed"
    /\ UNCHANGED <<inputValue, rendered, now, store, ret, bubbles, screens>>

FailAndRetry(i, message) ==
    /\ messages' = appendMessage(messages, errorMessage(message, now))
    /\ isLoading' = loadingAfterSettle(FALSE)
    /\ calls' = [calls EXCEPT ![i] =
                    IF calls[i].nposts = 1
                    THEN [newCall(calls[i].query, calls[i].sessionId, now)
                             EXCEPT !.nposts = 1]
                    ELSE doneCall(calls[i])]
    /\ op' = "fail"
    /\ UNCHANGED <<inputValue, sessionId, rendered, now, store, ret, bubbles,
                   screens>>

\* handleSend after sendChatMessage rejected with an Error carrying message
Fail(i, message) ==
    /\ messages' = appendMessage(messages, errorMessage(message, now))
    /\ isLoading' = loadingAfterSettle(FALSE)
    /\ calls' = [calls EXCEPT ![i] = doneCall(calls[i])]
    /\ op' = "fail"
    /\ UNCHANGED <<inputValue, sessionId, rendered, now, store, ret, bubbles,
                   screens>>

\* controller.abort() while the POST is in flight: fetch rejects with an
\* AbortError, sendChatMessage with the timeout error
Abort(i) ==
    /\ messages' = appendMessage(messages, errorMessage(TimedOutMessage, now))
    /\ isLoading' = loadingAfterSettle(FALSE)
    /\ calls' = [calls EXCEPT ![i] = abortedCall(calls[i])]
    /\ op' = "fail"
    /\ UNCHANGED <<inputValue, sessionId, rendered, now, store, ret, bubbles,
                   screens>>

\* getAuthHeaders settles; fetch is called with the controller's signal
AuthDone(i) ==
    /\ Committed
    /\ Active(i) /\ calls[i].phase = "auth"
    /\ \E readOk \in BOOLEAN :
         IF calls[i].aborted
         THEN Fail(i, TimedOutMessage)
         ELSE /\ calls' = [calls EXCEPT
                     ![i].phase = "fetch",
                     ![i].nposts = @ + 1,
                     ![i].request = Some(
                        [headers |-> getAuthHeaders(readOk),
                         body |-> requestBody(calls[i].query,
                                              calls[i].sessionId)])]
              /\ op' = "fetch"
              /\ UNCHANGED <<messages, inputValue, isLoading, sessionId,
                             rendered, now, store, ret, bubbles, screens>>

\* the fetch promise resolves with a Response (status line and headers)
FetchDone(i) ==
    /\ Committed
    /\ Active(i) /\ calls[i].phase = "fetch"
    /\ \E status \in Statuses :
       \E body \in IF IsOk(status) THEN {None}
                                   ELSE {Some(b) : b \in ErrorBodies} :
         calls' = [calls EXCEPT ![i].phase = IF IsOk(status) THEN "body"
                                                            ELSE "errbody",
                                ![i].status = status,
                                ![i].body = body,
                                ![i].timer = timerAfterHeaders]
    /\ op' = "headers"
    /\ UNCHANGED <<messages, inputValue, isLoading, sessionId, rendered,
                   now, store, ret, bubbles, screens>>

\* the fetch promise rejects with a network error
FetchFail(i) ==
    /\ Committed
    /\ Active(i) /\ calls[i].phase = "fetch"
    /\ Fail(i, NetworkMessage)

\* response.json() of a success response settles
BodyDone(i) ==
    /\ Committed
    /\ Active(i) /\ calls[i].phase = "body"
    /\ \/ \E response \in Responses : Succeed(i, response)
       \/ Fail(i, ParseMessage)

\* response.json().catch(() => ({})) of an error response settles
ErrBodyDone(i) ==
    /\ Committed
    /\ Active(i) /\ calls[i].phase = "errbody"
    /\ Fail(i, errorBodyMessage(calls[i].body[1], calls[i].status))

\* the setTimeout callback: controller.abort()
TimerFire(i) ==
    /\ Committed
    /\ Active(i) /\ calls[i].timer = "armed"
    /\ now >= deadline(calls[i])
    /\ IF calls[i].phase = "fetch"
       THEN Abort(i)
       ELSE /\ calls' = [calls EXCEPT ![i].aborted = TRUE,
                                       ![i].timer = "fired"]
            /\ op' = "abort"
            /\ UNCHANGED <<messages, inputValue, isLoading, sessionId,
                           rendered, now, store, ret, bubbles, screens>>

\* the response to a POST that was aborted comes in: its fetch promise is
\* settled already, nothing is waiting for it
LateResponse(i) ==
    /\ Committed
    /\ i \in 1..Len(calls) /\ calls[i].late
    /\ calls' = [calls EXCEPT ![i].late = FALSE]
    /\ op' = "lateResponse"
    /\ UNCHANGED <<messages, inputValue, isLoading, sessionId, rendered,
                   now, store, ret, bubbles, screens>>

\* handleNewChat
handleNewChat ==
    /\ messages' = <<>>
    /\ sessionId' = None
    /\ isLoading' = loadingAfterNewChat(isLoading)
    /\ op' = "handleNewChat"
    /\ UNCHANGED <<inputValue, rendered, calls, now, store, ret, bubbles, screens>>

\* time passes up to the next deadline of a call in flight; a timer callback
\* that is due runs before the clock moves on
Tick ==
    /\ Committed
    /\ \A i \in 1..Len(calls) :
          Active(i) /\ calls[i].timer = "armed" => now < deadline(calls[i])
    /\ \E i \in 1..Len(calls) :
          /\ Active(i)
          /\ deadline(calls[i]) > now
          /\ \A j \in 1..Len(calls) :
                Active(j) /\ calls[j].timer = "armed"
                    => deadline(calls[i]) <= deadline(calls[j])
          /\ now' = deadline(calls[i])
    /\ op' = "tick"
    /\ UNCHANGED <<messages, inputValue, isLoading, sessionId, rendered,
                   calls, store, ret, bubbles, screens>>

Next ==
    \/ Render
    \/ \E text \in Inputs : onChangeText(text)
    \/ handleSend
    \/ handleNewChat
    \/ \E i \in 1..MaxTurns : AuthDone(i)
    \/ \E i \in 1..MaxTurns : FetchDone(i)
    \/ \E i \in 1..MaxTurns : FetchFail(i)
    \/ \E i \in 1..MaxTurns : BodyDone(i)
    \/ \E i \in 1..MaxTurns : ErrBodyDone(i)
    \/ \E i \in 1..MaxTurns : TimerFire(i)
    \/ \E i \in 1..MaxTurns : LateResponse(i)
    \/ Tick

Spec == Init /\ [][Next]_vars

\* React renders what it has been told to render, and the event loop
\* delivers the callbacks of the SecureStore read, of the network and of the
\* timer: user input that keeps a render pending does not starve them
Progress ==
    \E i \in 1..MaxTurns :
        \/ AuthDone(i)
        \/ FetchDone(i) \/ FetchFail(i) \/ TimerFire(i)
        \/ BodyDone(i)
        \/ ErrBodyDone(i)

Fairness == WF_vars(Render) /\ SF_vars(Progress)

FairSpec == Spec /\ Fairness

\* Date.now() has moved on by one millisecond
TickMs ==
    /\ now < MaxClock
    /\ now' = now + 1
    /\ op' = "tickMs"
    /\ UNCHANGED <<messages, inputValue, isLoading, sessionId, rendered,
                   calls, store, ret, bubbles, screens>>

\* turns that settle within milliseconds, long before any timer
IdNext ==
    \/ Render
    \/ \E text \in Inputs : onChangeText(text)
    \/ handleSend
    \/ \E i \in 1..MaxTurns : AuthDone(i)
    \/ \E i \in 1..MaxTurns : FetchDone(i)
    \/ \E i \in 1..MaxTurns : FetchFail(i)
    \/ \E i \in 1..MaxTurns : BodyDone(i)
    \/ \E i \in 1..MaxTurns : ErrBodyDone(i)
    \/ TickMs

IdSpec == Init /\ [][IdNext]_vars

\* a conversation in which New Chat is never pressed
NoResetNext ==
    \/ Render
    \/ \E text \in Inputs : onChangeText(text)
    \/ handleSend
    \/ \E i \in 1..MaxTurns : AuthDone(i)
    \/ \E i \in 1..MaxTurns : FetchDone(i)
    \/ \E i \in 1..MaxTurns : FetchFail(i)
    \/ \E i \in 1..MaxTurns : BodyDone(i)
    \/ \E i \in 1..MaxTurns : ErrBodyDone(i)
    \/ \E i \in 1..MaxTurns : TimerFire(i)
    \/ \E i \in 1..MaxTurns : LateResponse(i)
    \/ Tick

NoResetSpec == Init /\ [][NoResetNext]_vars

----------------------------------------------------------------------------
(* The credential record and the functions of api.js that read or write it, *)
(* called in any order around the first half of a turn                      *)

\* userData of a registration: { email, name, token }
RegisteredUser ==
    [email |-> "new@example.com", name |-> "Asha", token |-> "tok2"]

\* the well-formed credentials handleSubmit saves
Credentials == {StoredUser, RegisteredUser}

\* userData whose token is undefined (JSON.stringify leaves the key out),
\* and userData whose token is the empty string
TokenlessUser == [email |-> "user@example.com"]
EmptyTokenUser == [email |-> "user@example.com", token |-> ""]

\* a text that JSON.parse rejects
CorruptText == <<"{">>

\* what the record 'nyayasahay_user' may hold before the first sign-in:
\* nothing, the empty string, a corrupt text, or a record without a token
StoreContents ==
    {None, Some(<<>>), Some(CorruptText),
     Some(JSONstringify(TokenlessUser)), Some(JSONstringify(EmptyTokenUser))}

\* the Error a SecureStore operation rejects with
StoreFailure == <<"Could not access the keychain">>

setItemMerging(old, text) ==
    IF old = None THEN Some(text) ELSE Some(old[1] \o text)

\* SecureStore.setItemAsync(key, text): the record holds text
setItem(old, text) == Some(text)

\* SecureStore.deleteItemAsync(key): the record is gone
deleteItem(old) == None

getUserNoCatch(readOk) ==
    IF ~readOk THEN Threw(StoreFailure)
    ELSE IF store = None \/ store[1] = <<>> THEN Returned(None)
    ELSE IF ~JSONparses(store[1]) THEN Threw(ParseMessage)
    ELSE Returned(Some(JSONparse(store[1])))

\* getUser: null (None) or the parsed record
getUser(readOk) ==
    IF ~readOk THEN Returned(None)
    ELSE IF store = None \/ store[1] = <<>> THEN Returned(None)
    ELSE IF ~JSONparses(store[1]) THEN Returned(None)
    ELSE Returned(Some(JSONparse(store[1])))

\* saveUser(userData)
SaveUser(userData, writeOk) ==
    /\ store' = IF writeOk THEN setItem(store, JSONstringify(userData))
                           ELSE store
    /\ ret' = Call("saveUser", writeOk, Some(userData),
                   IF writeOk THEN Returned(None) ELSE Threw(StoreFailure))
    /\ op' = "saveUser"
    /\ UNCHANGED <<messages, inputValue, isLoading, sessionId, rendered,
                   calls, now, bubbles, screens>>

\* clearUser()
ClearUser(deleteOk) ==
    /\ store' = IF deleteOk THEN deleteItem(store) ELSE store
    /\ ret' = Call("clearUser", deleteOk, None,
                   IF deleteOk THEN Returned(None) ELSE Threw(StoreFailure))
    /\ op' = "clearUser"
    /\ UNCHANGED <<messages, inputValue, isLoading, sessionId, rendered,
                   calls, now, bubbles, screens>>

\* getUser()
GetUser(readOk) ==
    /\ ret' = Call("getUser", readOk, None, getUser(readOk))
    /\ op' = "getUser"
    /\ UNCHANGED <<messages, inputValue, isLoading, sessionId, rendered,
                   calls, now, store, bubbles, screens>>

\* getAuthHeaders()
GetAuthHeaders(readOk) ==
    /\ ret' = Call("getAuthHeaders", readOk, None,
                   Returned(getAuthHeaders(readOk)))
    /\ op' = "getAuthHeaders"
    /\ UNCHANGED <<messages, inputValue, isLoading, sessionId, rendered,
                   calls, now, store, bubbles, screens>>

\* what the network does with a request of the session catalog: the fetch
\* promise rejects, or it resolves with a status and a body; the body None
\* is one that response.json() rejects
NetworkError == [kind |-> "error", status |-> 0, body |-> None]
Answer(status, body) == [kind |-> "response", status |-> status, body |-> body]

CatalogStatuses == {200, 401, 500}

SessionList == <<[id |-> "s1", title |-> "Bail"], [id |-> "s2", title |-> "FIR"]>>
SessionDetail == [id |-> "s1", messages |-> <<>>]

\* GET /api/v1/chat/sessions
ListAnswers ==
    {NetworkError}
        \cup {Answer(s, b) : s \in CatalogStatuses,
                             b \in {None, Some(<<>>), Some(SessionList)}}

\* GET and DELETE /api/v1/chat/sessions/{sessionId}
ItemAnswers ==
    {NetworkError}
        \cup {Answer(s, b) : s \in CatalogStatuses,
                             b \in {None, Some(SessionDetail)}}

SessionsMessage == <<"Failed to fetch sessions">>
SessionMessage == <<"Failed to fetch session">>
DeleteMessage == <<"Failed to delete session">>

\* the try block of getChatSessions
fetchSessions(net) ==
    IF net.kind = "error" THEN Threw(NetworkMessage)
    ELSE IF ~IsOk(net.status)
    THEN IF net.status = 401 THEN Returned(<<>>) ELSE Threw(SessionsMessage)
    ELSE IF net.body = None THEN Threw(ParseMessage)
    ELSE Returned(net.body[1])

getChatSessionsRethrow(net) == fetchSessions(net)

\* getChatSessions: catch (error) { return [] }
getChatSessions(net) ==
    IF fetchSessions(net).outcome = "threw" THEN Returned(<<>>)
    ELSE fetchSessions(net)

getChatSessionLenient(sid, net) ==
    IF net.kind = "error" THEN Threw(NetworkMessage)
    ELSE IF ~IsOk(net.status)
    THEN IF net.status = 401 THEN Returned(None) ELSE Threw(SessionMessage)
    ELSE IF net.body = None THEN Threw(ParseMessage)
    ELSE Returned(net.body)

\* getChatSession(sessionId)
getChatSession(sid, net) ==
    IF net.kind = "error" THEN Threw(NetworkMessage)
    ELSE IF ~IsOk(net.status) THEN Threw(SessionMessage)
    ELSE IF net.body = None THEN Threw(ParseMessage)
    ELSE Returned(net.body)

\* deleteChatSession(sessionId)
deleteChatSession(sid, net) ==
    IF net.kind = "error" THEN Threw(NetworkMessage)
    ELSE IF ~IsOk(net.status) THEN Threw(DeleteMessage)
    ELSE IF net.body = None THEN Threw(ParseMessage)
    ELSE Returned(net.body)

\* a call of getChatSessions from its getAuthHeaders to its settlement
GetChatSessions(readOk, net) ==
    /\ ret' = Call("getChatSessions", readOk, net, getChatSessions(net))
    /\ op' = "getChatSessions"
    /\ UNCHANGED <<messages, inputValue, isLoading, sessionId, rendered,
                   calls, now, store, bubbles, screens>>

\* a call of getChatSession
GetChatSession(readOk, sid, net) ==
    /\ ret' = Call("getChatSession", readOk, net, getChatSession(sid, net))
    /\ op' = "getChatSession"
    /\ UNCHANGED <<messages, inputValue, isLoading, sessionId, rendered,
                   calls, now, store, bubbles, screens>>

\* a call of deleteChatSession
DeleteChatSession(readOk, sid, net) ==
    /\ ret' = Call("deleteChatSession", readOk, net,
                   deleteChatSession(sid, net))
    /\ op' = "deleteChatSession"
    /\ UNCHANGED <<messages, inputValue, isLoading, sessionId, rendered,
                   calls, now, store, bubbles, screens>>

StoreInit ==
    /\ messages = <<>>
    /\ inputValue = <<>>
    /\ isLoading = FALSE
    /\ sessionId = None
    /\ rendered = [inputValue |-> <<>>, isLoading |-> FALSE, sessionId |-> None]
    /\ calls = <<>>
    /\ now = 0
    /\ store \in StoreContents
    /\ op = "init"
    /\ ret = NoRet
    /\ bubbles = <<>>
    /\ ScreensInit

StoreNext ==
    \/ \E userData \in Credentials \cup {TokenlessUser}, writeOk \in BOOLEAN :
          SaveUser(userData, writeOk)
    \/ \E deleteOk \in BOOLEAN : ClearUser(deleteOk)
    \/ \E readOk \in BOOLEAN : GetUser(readOk)
    \/ \E readOk \in BOOLEAN : GetAuthHeaders(readOk)
    \/ \E text \in Inputs : onChangeText(text)
    \/ Render
    \/ handleSend
    \/ \E i \in 1..MaxTurns : AuthDone(i)

StoreSpec == StoreInit /\ [][StoreNext]_vars

----------------------------------------------------------------------------
(* The session catalog: its functions are called in any order, signed in   *)
(* or not                                                                   *)

CatalogInit ==
    /\ messages = <<>>
    /\ inputValue = <<>>
    /\ isLoading = FALSE
    /\ sessionId = None
    /\ rendered = [inputValue |-> <<>>, isLoading |-> FALSE, sessionId |-> None]
    /\ calls = <<>>
    /\ now = 0
    /\ store \in StoreContents \cup {Some(JSONstringify(u)) : u \in Credentials}
    /\ op = "init"
    /\ ret = NoRet
    /\ bubbles = <<>>
    /\ ScreensInit

CatalogNext ==
    \/ \E readOk \in BOOLEAN, net \in ListAnswers :
          GetChatSessions(readOk, net)
    \/ \E readOk \in BOOLEAN, net \in ItemAnswers :
          GetChatSession(readOk, SessionDetail.id, net)
    \/ \E readOk \in BOOLEAN, net \in ItemAnswers :
          DeleteChatSession(readOk, SessionDetail.id, net)

CatalogSpec == CatalogInit /\ [][CatalogNext]_vars

----------------------------------------------------------------------------
(* ChatBubble: the confidence indicator of the bubbles of a log             *)

getConfidenceCountFirst(isFallback, sources) ==
    IF Len(sources) >= 3
    THEN [level |-> "high", value |-> 85, text |-> "High confidence"]
    ELSE IF isFallback
    THEN [level |-> "low", value |-> 0, text |-> "No match found"]
    ELSE IF Len(sources) >= 1
    THEN [level |-> "medium", value |-> 60, text |-> "Medium confidence"]
    ELSE [level |-> "low", value |-> 30, text |-> "Low confidence"]

getConfidenceHighAtTwo(isFallback, sources) ==
    IF isFallback
    THEN [level |-> "low", value |-> 0, text |-> "No match found"]
    ELSE IF Len(sources) >= 2
    THEN [level |-> "high", value |-> 85, text |-> "High confidence"]
    ELSE IF Len(sources) >= 1
    THEN [level |-> "medium", value |-> 60, text |-> "Medium confidence"]
    ELSE [level |-> "low", value |-> 30, text |-> "Low confidence"]

\* getConfidence, of the props isFallback and sources
getConfidence(isFallback, sources) ==
    IF isFallback
    THEN [level |-> "low", value |-> 0, text |-> "No match found"]
    ELSE IF Len(sources) >= 3
    THEN [level |-> "high", value |-> 85, text |-> "High confidence"]
    ELSE IF Len(sources) >= 1
    THEN [level |-> "medium", value |-> 60, text |-> "Medium confidence"]
    ELSE [level |-> "low", value |-> 30, text |-> "Low confidence"]

\* a prop of ChatBubble: the default stands in for a field the message
\* does not have
prop(message, name, default) ==
    IF name \in DOMAIN message THEN message[name] ELSE default

ChatBubbleAnyRole(message) ==
    Some(getConfidence(prop(message, "isFallback", FALSE),
                       prop(message, "sources", <<>>)))

\* const confidence = role === 'bot' ? getConfidence() : null
ChatBubble(message) ==
    IF message.role = "bot"
    THEN Some(getConfidence(prop(message, "isFallback", FALSE),
                            prop(message, "sources", <<>>)))
    ELSE None

\* an answer with n citations
AnswerWith(n, fallback) ==
    [answer |-> <<"It depends">>, sources |-> Some([k \in 1..n |-> S302]),
     is_fallback |-> fallback, latency_ms |-> None, session_id |-> None]

\* a user message handed to ChatBubble with sources and isFallback props
userMessageWith(n, fallback) ==
    [id |-> 0, role |-> "user", content |-> <<Question>>,
     sources |-> [k \in 1..n |-> S302], isFallback |-> fallback,
     timestamp |-> getTimestamp(0)]

\* the messages handleSend can put into the log, and user messages that
\* carry the props of an answer
BubbleMessages ==
    {userMessage(<<Question>>, 0), errorMessage(NetworkMessage, 0)}
        \cup {userMessageWith(n, f) : n \in {1, 3}, f \in BOOLEAN}
        \cup {botMessage(r, 0) : r \in Responses}
        \cup {botMessage(AnswerWith(n, f), 0) :
                 n \in 0..MaxSources, f \in {Some(FALSE), Some(TRUE)}}

BubbleInit ==
    /\ messages \in UNION {[1..n -> BubbleMessages] : n \in 0..MaxLog}
    /\ inputValue = <<>>
    /\ isLoading = FALSE
    /\ sessionId = None
    /\ rendered = [inputValue |-> <<>>, isLoading |-> FALSE, sessionId |-> None]
    /\ calls = <<>>
    /\ now = 0
    /\ store = None
    /\ op = "init"
    /\ ret = NoRet
    /\ bubbles = <<>>
    /\ ScreensInit

\* messages.map((message) => <ChatBubble ... />)
RenderBubbles ==
    /\ bubbles' = [k \in 1..Len(messages) |-> ChatBubble(messages[k])]
    /\ op' = "renderBubbles"
    /\ UNCHANGED <<messages, inputValue, isLoading, sessionId, rendered,
                   calls, now, store, ret, screens>>

BubbleNext == RenderBubbles

BubbleSpec == BubbleInit /\ [][BubbleNext]_vars

----------------------------------------------------------------------------
(* AuthScreen (auth.js): the form, handleSubmit and the calls it awaits;    *)
(* with it the handlers that load the stored user and that log out, in the  *)
(* chat screen and in the drawer                                            *)

\* submissions of the form made in one behaviour
MaxSubmits == 2

Email == "new@example.com"
Name == "Asha"
ShortPassword == <<"a", "b", "c", "d", "e">>
Password == <<"s", "e", "c", "r", "e", "t">>

\* what the user may type into each field of the form
FieldValues ==
    [email |-> {Email}, password |-> {ShortPassword, Password},
     name |-> {Name}, confirmPassword |-> {ShortPassword, Password}]

\* access_token of a login response
Tokens == {"tok1", "tok2"}

\* bodies of a 200 response of the login endpoint: text that is not JSON,
\* the JSON value null, and { access_token }
LoginBodies ==
    {GarbageBody, NullBody}
        \cup {[kind |-> "object", access_token |-> t] : t \in Tokens}

\* bodies of a 200 response of the registration endpoint
RegisterBodies == {GarbageBody, [kind |-> "object", id |-> 1]}

\* POST /api/v1/auth/login
LoginAnswers ==
    {NetworkError}
        \cup {Answer(200, b) : b \in LoginBodies}
        \cup {Answer(401, b) : b \in ErrorBodies}

\* POST /api/v1/auth/register
RegisterAnswers ==
    {NetworkError}
        \cup {Answer(200, b) : b \in RegisterBodies}
        \cup {Answer(400, b) : b \in ErrorBodies}

\* errorData.detail || fallback
authErrorMessage(body, fallback) ==
    IF errorData(body).kind = "null" THEN NullDetailMessage
    ELSE IF errorData(body).detail # None /\ errorData(body).detail[1] # <<>>
    THEN errorData(body).detail[1]
    ELSE fallback

\* registerUser(name, email, password)
registerUser(net) ==
    IF net.kind = "error" THEN Threw(NetworkMessage)
    ELSE IF ~IsOk(net.status)
    THEN Threw(authErrorMessage(net.body, <<"Registration failed">>))
    ELSE IF net.body.kind = "garbage" THEN Threw(ParseMessage)
    ELSE Returned(net.body)

\* loginUser(email, password)
loginUser(net) ==
    IF net.kind = "error" THEN Threw(NetworkMessage)
    ELSE IF ~IsOk(net.status)
    THEN Threw(authErrorMessage(net.body, <<"Invalid credentials">>))
    ELSE IF net.body.kind = "garbage" THEN Threw(ParseMessage)
    ELSE Returned(net.body)

\* the TypeError of response.access_token for a response that is null
NullTokenMessage == <<"Cannot read property 'access_token' of null">>

validationSkipsLength(mode, formData) ==
    IF formData.email = "" \/ formData.password = <<>>
    THEN Some(<<"Please fill in all required fields">>)
    ELSE IF mode = "signin" THEN None
    ELSE IF formData.name = "" THEN Some(<<"Please enter your name">>)
    ELSE IF formData.password # formData.confirmPassword
    THEN Some(<<"Passwords do not match">>)
    ELSE None

\* the validation of handleSubmit: the error it sets, if any
validation(mode, formData) ==
    IF formData.email = "" \/ formData.password = <<>>
    THEN Some(<<"Please fill in all required fields">>)
    ELSE IF mode = "signin" THEN None
    ELSE IF formData.name = "" THEN Some(<<"Please enter your name">>)
    ELSE IF formData.password # formData.confirmPassword
    THEN Some(<<"Passwords do not match">>)
    ELSE IF Len(formData.password) < 6
    THEN Some(<<"Password must be at least 6 characters">>)
    ELSE None

\* a handleSubmit that passed validation and is waiting for its first call
newSubmit(mode, formData) ==
    [mode |-> mode, email |-> formData.email,
     name |-> IF mode = "signin" THEN "" ELSE formData.name,
     phase |-> IF mode = "signin" THEN "login" ELSE "register",
     token |-> None]

\* a handleSubmit that has returned
doneSubmit(submit) ==
    [mode |-> submit.mode, email |-> "", name |-> "", phase |-> "done",
     token |-> None]

userDataStaleToken(submit) ==
    IF submit.mode = "signin"
    THEN [email |-> submit.email, token |-> "tok1"]
    ELSE [email |-> submit.email, name |-> submit.name, token |-> "tok1"]

\* userData of handleSubmit, with the access_token of its login
userData(submit) ==
    IF submit.mode = "signin"
    THEN [email |-> submit.email, token |-> submit.token[1]]
    ELSE [email |-> submit.email, name |-> submit.name,
          token |-> submit.token[1]]

\* err.message || 'An error occurred'
failureText(message) ==
    IF message = <<>> THEN <<"An error occurred">> ELSE message

\* a call of the chat screen or of the drawer that is waiting for its result
Task(fn, value) == [fn |-> fn, value |-> value]

TasksOf(fn) == {t \in tasks : t.fn = fn}

\* React has rendered AuthScreen: the button shows the current isLoading
AuthRender ==
    /\ auth.disabled # auth.isLoading
    /\ auth' = [auth EXCEPT !.disabled = auth.isLoading]
    /\ op' = "authRender"
    /\ UNCHANGED <<messages, inputValue, isLoading, sessionId, rendered,
                   calls, now, store, ret, bubbles, route, mounted, chatUser,
                   submits, drawer, tasks>>

\* handleChange(field, value)
handleChange(field, value) ==
    /\ route = "/auth"
    /\ auth' = [auth EXCEPT !.formData[field] = value, !.error = <<>>]
    /\ op' = "handleChange"
    /\ UNCHANGED <<messages, inputValue, isLoading, sessionId, rendered,
                   calls, now, store, ret, bubbles, route, mounted, chatUser,
                   submits, drawer, tasks>>

\* setMode(isSignIn ? 'register' : 'signin')
setMode ==
    /\ route = "/auth"
    /\ auth' = [auth EXCEPT
                   !.mode = IF @ = "signin" THEN "register" ELSE "signin"]
    /\ op' = "setMode"
    /\ UNCHANGED <<messages, inputValue, isLoading, sessionId, rendered,
                   calls, now, store, ret, bubbles, route, mounted, chatUser,
                   submits, drawer, tasks>>

\* handleSubmit up to its first suspension, or to the return of a failed
\* validation
handleSubmit ==
    /\ route = "/auth"
    /\ ~auth.disabled
    /\ IF validation(auth.mode, auth.formData) # None
       THEN /\ auth' = [auth EXCEPT
                           !.error = validation(auth.mode, auth.formData)[1]]
            /\ op' = "handleSubmitInvalid"
            /\ UNCHANGED submits
       ELSE /\ Len(submits) < MaxSubmits
            /\ auth' = [auth EXCEPT !.error = <<>>, !.isLoading = TRUE]
            /\ submits' = Append(submits, newSubmit(auth.mode, auth.formData))
            /\ op' = "handleSubmit"
    /\ UNCHANGED <<messages, inputValue, isLoading, sessionId, rendered,
                   calls, now, store, ret, bubbles, route, mounted, chatUser,
                   drawer, tasks>>

\* catch (err) and finally of handleSubmit
SubmitFail(i, message) ==
    /\ auth' = [auth EXCEPT !.error = failureText(message),
                            !.isLoading = FALSE]
    /\ submits' = [submits EXCEPT ![i] = doneSubmit(submits[i])]
    /\ op' = "submitFailed"
    /\ UNCHANGED <<messages, inputValue, isLoading, sessionId, rendered,
                   calls, now, store, ret, bubbles, route, mounted, chatUser,
                   drawer, tasks>>

\* registerUser has settled
RegisterDone(i) ==
    /\ i \in 1..Len(submits) /\ submits[i].phase = "register"
    /\ \E net \in RegisterAnswers :
          IF registerUser(net).outcome = "threw"
          THEN SubmitFail(i, registerUser(net).value)
          ELSE /\ submits' = [submits EXCEPT ![i].phase = "login"]
               /\ op' = "registered"
               /\ UNCHANGED <<messages, inputValue, isLoading, sessionId,
                              rendered, calls, now, store, ret, bubbles,
                              route, mounted, chatUser, auth, drawer, tasks>>

\* loginUser has settled; userData is built from its response
LoginDone(i) ==
    /\ i \in 1..Len(submits) /\ submits[i].phase = "login"
    /\ \E net \in LoginAnswers :
          IF loginUser(net).outcome = "threw"
          THEN SubmitFail(i, loginUser(net).value)
          ELSE IF loginUser(net).value.kind = "null"
          THEN SubmitFail(i, NullTokenMessage)
          ELSE /\ submits' = [submits EXCEPT
                     ![i].phase = "save",
                     ![i].token = Some(loginUser(net).value.access_token)]
               /\ op' = "loggedIn"
               /\ UNCHANGED <<messages, inputValue, isLoading, sessionId,
                              rendered, calls, now, store, ret, bubbles,
                              route, mounted, chatUser, auth, drawer, tasks>>

\* saveUser has settled: router.replace('/chat') and finally
SaveDone(i) ==
    /\ i \in 1..Len(submits) /\ submits[i].phase = "save"
    /\ \E writeOk \in BOOLEAN :
          IF ~writeOk THEN SubmitFail(i, StoreFailure)
          ELSE /\ store' = setItem(store, JSONstringify(userData(submits[i])))
               /\ route' = "/chat"
               /\ auth' = [auth EXCEPT !.isLoading = FALSE]
               /\ submits' = [submits EXCEPT ![i] = doneSubmit(submits[i])]
               /\ op' = "signedIn"
               /\ UNCHANGED <<messages, inputValue, isLoading, sessionId,
                              rendered, calls, now, ret, bubbles, mounted,
                              chatUser, drawer, tasks>>

\* the chat screen is shown for the first time: its mount effect calls
\* loadUser, which reads the record
ChatMount ==
    /\ route = "/chat" /\ "chat" \notin mounted
    /\ mounted' = mounted \cup {"chat"}
    /\ \E readOk \in BOOLEAN :
          tasks' = tasks \cup {Task("chat.loadUser", getUser(readOk).value)}
    /\ op' = "chat.loadUser"
    /\ UNCHANGED <<messages, inputValue, isLoading, sessionId, rendered,
                   calls, now, store, ret, bubbles, route, chatUser, auth,
                   submits, drawer>>

\* loadUser of the chat screen: setUser(userData)
ChatUserLoaded ==
    /\ \E t \in TasksOf("chat.loadUser") :
          /\ chatUser' = t.value
          /\ tasks' = tasks \ {t}
    /\ op' = "chat.setUser"
    /\ UNCHANGED <<messages, inputValue, isLoading, sessionId, rendered,
                   calls, now, store, ret, bubbles, route, mounted, auth,
                   submits, drawer>>

\* handleLogout of the chat screen up to await clearUser(); when clearUser
\* rejects, the handler ends there
ChatLogout ==
    /\ route = "/chat" /\ chatUser # None
    /\ \E deleteOk \in BOOLEAN :
          IF deleteOk
          THEN /\ store' = deleteItem(store)
               /\ tasks' = tasks \cup {Task("chat.handleLogout", None)}
          ELSE UNCHANGED <<store, tasks>>
    /\ op' = "chat.handleLogout"
    /\ UNCHANGED <<messages, inputValue, isLoading, sessionId, rendered,
                   calls, now, ret, bubbles, route, mounted, chatUser, auth,
                   submits, drawer>>

\* handleLogout of the chat screen after clearUser: setUser(null) and
\* router.replace('/')
ChatLoggedOut ==
    /\ \E t \in TasksOf("chat.handleLogout") : tasks' = tasks \ {t}
    /\ chatUser' = None
    /\ route' = "/"
    /\ op' = "chat.loggedOut"
    /\ UNCHANGED <<messages, inputValue, isLoading, sessionId, rendered,
                   calls, now, store, ret, bubbles, mounted, auth, submits,
                   drawer>>

\* the drawer opens: its listener calls loadUser, which reads the record
DrawerOpen ==
    /\ \E readOk \in BOOLEAN :
          tasks' = tasks \cup {Task("drawer.loadUser", getUser(readOk).value)}
    /\ op' = "drawer.loadUser"
    /\ UNCHANGED <<messages, inputValue, isLoading, sessionId, rendered,
                   calls, now, store, ret, bubbles, route, mounted, chatUser,
                   auth, submits, drawer>>

\* loadUser of the drawer: setUser(userData); a parsed record is a new
\* object, so the effect on [user] is due after it
DrawerUserLoaded ==
    /\ \E t \in TasksOf("drawer.loadUser") :
          /\ drawer' = [drawer EXCEPT
                 !.user = t.value,
                 !.effectDue = @ \/ t.value # None \/ drawer.user # None]
          /\ tasks' = tasks \ {t}
    /\ op' = "drawer.setUser"
    /\ UNCHANGED <<messages, inputValue, isLoading, sessionId, rendered,
                   calls, now, store, ret, bubbles, route, mounted, chatUser,
                   auth, submits>>

\* handleLogout of the drawer up to await clearUser(); when clearUser
\* rejects, the handler ends there
DrawerLogout ==
    /\ drawer.user # None
    /\ \E deleteOk \in BOOLEAN :
          IF deleteOk
          THEN /\ store' = deleteItem(store)
               /\ tasks' = tasks \cup {Task("drawer.handleLogout", None)}
          ELSE UNCHANGED <<store, tasks>>
    /\ op' = "drawer.handleLogout"
    /\ UNCHANGED <<messages, inputValue, isLoading, sessionId, rendered,
                   calls, now, ret, bubbles, route, mounted, chatUser, auth,
                   submits, drawer>>

\* handleLogout of the drawer after clearUser: setUser(null),
\* setSessions([]) and router.replace('/')
DrawerLoggedOut ==
    /\ \E t \in TasksOf("drawer.handleLogout") : tasks' = tasks \ {t}
    /\ drawer' = [drawer EXCEPT !.user = None, !.sessions = <<>>,
                                !.effectDue = @ \/ drawer.user # None]
    /\ route' = "/"
    /\ op' = "drawer.loggedOut"
    /\ UNCHANGED <<messages, inputValue, isLoading, sessionId, rendered,
                   calls, now, store, ret, bubbles, mounted, chatUser, auth,
                   submits>>

\* the sign-in screen is shown, with what the record may hold before the
\* first sign-in
FormInit ==
    /\ messages = <<>>
    /\ inputValue = <<>>
    /\ isLoading = FALSE
    /\ sessionId = None
    /\ rendered = [inputValue |-> <<>>, isLoading |-> FALSE, sessionId |-> None]
    /\ calls = <<>>
    /\ now = 0
    /\ store \in {None, Some(JSONstringify(TokenlessUser))}
    /\ op = "init"
    /\ ret = NoRet
    /\ bubbles = <<>>
    /\ route = "/auth"
    /\ mounted = {"auth"}
    /\ chatUser = None
    /\ auth = AuthInit
    /\ submits = <<>>
    /\ drawer = DrawerInit
    /\ tasks = {}

\* the sign-in screen alone: typing, submitting, and the calls awaited
FormNext ==
    \/ AuthRender
    \/ \E field \in DOMAIN FieldValues :
          \E value \in FieldValues[field] : handleChange(field, value)
    \/ setMode
    \/ handleSubmit
    \/ \E i \in 1..MaxSubmits : RegisterDone(i)
    \/ \E i \in 1..MaxSubmits : LoginDone(i)
    \/ \E i \in 1..MaxSubmits : SaveDone(i)

FormSpec == FormInit /\ [][FormNext]_vars

\* the form filled in for a sign-in, and for a registration
SignInForm ==
    [email |-> Email, password |-> Password, name |-> "",
     confirmPassword |-> <<>>]
RegisterForm ==
    [email |-> Email, password |-> Password, name |-> Name,
     confirmPassword |-> Password]

\* the sign-in screen is shown with the form filled in
AccountInit ==
    /\ messages = <<>>
    /\ inputValue = <<>>
    /\ isLoading = FALSE
    /\ sessionId = None
    /\ rendered = [inputValue |-> <<>>, isLoading |-> FALSE, sessionId |-> None]
    /\ calls = <<>>
    /\ now = 0
    /\ store \in {None, Some(JSONstringify(TokenlessUser))}
    /\ op = "init"
    /\ ret = NoRet
    /\ bubbles = <<>>
    /\ route = "/auth"
    /\ mounted = {"auth"}
    /\ chatUser = None
    /\ auth \in {[AuthInit EXCEPT !.formData = SignInForm],
                  [AuthInit EXCEPT !.mode = "register",
                                   !.formData = RegisterForm]}
    /\ submits = <<>>
    /\ drawer = DrawerInit
    /\ tasks = {}

\* signing in or registering, and the handlers that load the stored user
\* and log out
AccountNext ==
    \/ AuthRender
    \/ handleSubmit
    \/ \E i \in 1..MaxSubmits : RegisterDone(i)
    \/ \E i \in 1..MaxSubmits : LoginDone(i)
    \/ \E i \in 1..MaxSubmits : SaveDone(i)
    \/ ChatMount
    \/ ChatUserLoaded
    \/ ChatLogout
    \/ ChatLoggedOut
    \/ DrawerOpen
    \/ DrawerUserLoaded
    \/ DrawerLogout
    \/ DrawerLoggedOut

AccountSpec == AccountInit /\ [][AccountNext]_vars

----------------------------------------------------------------------------
(* Logging out around a chat turn, and the session list of the drawer: the *)
(* app has started with a credential stored, and both mount effects have   *)
(* called getUser                                                          *)

LogoutInit ==
    /\ messages = <<>>
    /\ inputValue = <<>>
    /\ isLoading = FALSE
    /\ sessionId = None
    /\ rendered = [inputValue |-> <<>>, isLoading |-> FALSE, sessionId |-> None]
    /\ calls = <<>>
    /\ now = 0
    /\ store = Some(JSONstringify(StoredUser))
    /\ op = "init"
    /\ ret = NoRet
    /\ bubbles = <<>>
    /\ route = "/chat"
    /\ mounted = {"chat"}
    /\ chatUser = None
    /\ auth = AuthInit
    /\ submits = <<>>
    /\ drawer = DrawerInit
    /\ tasks = {Task("chat.loadUser", Some(StoredUser)),
                Task("drawer.loadUser", Some(StoredUser))}

\* turns that end by a rejected fetch, with the loading of the user and
\* the logout of both components
LogoutNext ==
    \/ Render
    \/ \E text \in Inputs : onChangeText(text)
    \/ handleSend
    \/ \E i \in 1..MaxTurns : AuthDone(i)
    \/ \E i \in 1..MaxTurns : FetchFail(i)
    \/ ChatUserLoaded
    \/ ChatLogout
    \/ ChatLoggedOut
    \/ DrawerOpen
    \/ DrawerUserLoaded
    \/ DrawerLogout
    \/ DrawerLoggedOut

LogoutSpec == LogoutInit /\ [][LogoutNext]_vars

\* a server list longer than the drawer shows
LongList ==
    [k \in 1..6 |-> [id |-> ToString(k), title |-> "Bail"]]

\* GET /api/v1/chat/sessions as the drawer meets it
HistoryAnswers ==
    {NetworkError, Answer(401, None), Answer(200, Some(<<>>)),
     Answer(200, Some(SessionList)), Answer(200, Some(LongList))}

\* Array.prototype.slice(from, to) for 0 <= from <= to
slice(list, from, to) ==
    SubSeq(list, from + 1, IF to < Len(list) THEN to ELSE Len(list))

\* the effect on [user]: loadSessions up to await getChatSessions(), or
\* setSessions([])
UserEffect ==
    /\ drawer.effectDue
    /\ IF drawer.user # None
       THEN /\ drawer' = [drawer EXCEPT !.effectDue = FALSE,
                                       !.loadingSessions = TRUE]
            /\ tasks' = tasks \cup {Task("drawer.loadSessions", drawer.user)}
       ELSE /\ drawer' = [drawer EXCEPT !.effectDue = FALSE,
                                       !.sessions = <<>>]
            /\ UNCHANGED tasks
    /\ op' = "drawer.effect"
    /\ UNCHANGED <<messages, inputValue, isLoading, sessionId, rendered,
                   calls, now, store, ret, bubbles, route, mounted, chatUser,
                   auth, submits>>

\* loadSessions after getChatSessions: setSessions(sessionList.slice(0, 5))
\* and finally
SessionsLoaded ==
    /\ \E t \in TasksOf("drawer.loadSessions") :
          /\ tasks' = tasks \ {t}
          /\ \E net \in HistoryAnswers :
                drawer' = [drawer EXCEPT
                    !.sessions = slice(getChatSessions(net).value, 0, 5),
                    !.loadingSessions = FALSE]
    /\ op' = "drawer.setSessions"
    /\ UNCHANGED <<messages, inputValue, isLoading, sessionId, rendered,
                   calls, now, store, ret, bubbles, route, mounted, chatUser,
                   auth, submits>>

\* the drawer with its session list, and the logout of both components
DrawerNext ==
    \/ ChatUserLoaded
    \/ ChatLogout
    \/ ChatLoggedOut
    \/ DrawerOpen
    \/ DrawerUserLoaded
    \/ UserEffect
    \/ SessionsLoaded
    \/ DrawerLogout
    \/ DrawerLoggedOut

DrawerSpec == LogoutInit /\ [][DrawerNext]_vars

----------------------------------------------------------------------------
(* Properties *)

Last(seq) == seq[Len(seq)]

Front(seq) == SubSeq(seq, 1, Len(seq) - 1)

InFlight == {i \in 1..Len(calls) : calls[i].phase # "done"}

\* C1: at most one send is in flight at any time, also when handleSend is
\* invoked twice back to back on the same closure
C1_AtMostOneInFlight == Cardinality(InFlight) <= 1

NoUserTurn == \A k \in 1..Len(messages) : messages[k].role # "user"

\* C3: an accepted submit (made on the closure of the current state) sends
\* session_id absent when it is the first of a conversation, it sends the
\* stored sessionId in any case, and the POST body carries what it sends
C3_SendsStoredSessionId ==
    [][/\ (op' = "handleSend" /\ Committed /\ NoUserTurn)
            => Last(calls').sessionId = None
       /\ (op' = "handleSend" /\ Committed)
            => Last(calls').sessionId = sessionId
       /\ op' = "fetch" =>
            \A i \in 1..Len(calls) :
                calls'[i].nposts > calls[i].nposts =>
                    calls'[i].request[1].body.session_id = calls[i].sessionId
      ]_vars

\* C4: an accepted submit (non-empty trimmed query, not loading) appends
\* exactly one user message holding the trimmed query, in the step that
\* creates the call and before that call has issued its POST
C4_UserMessageBeforeRequest ==
    [][op' = "handleSend" =>
        /\ trim(rendered.inputValue) # <<>>
        /\ Len(messages') = Len(messages) + 1
        /\ Front(messages') = messages
        /\ Last(messages').role = "user"
        /\ Last(messages').content = trim(rendered.inputValue)
        /\ Len(calls') = Len(calls) + 1
        /\ Last(calls').phase = "auth"
        /\ Last(calls').nposts = 0
        /\ Last(calls').request = None]_vars

\* a submit of " q " was accepted with an earlier turn in the log: the user
\* message is last and the new call has sent nothing
C4_Witness ==
    /\ op = "handleSend"
    /\ Len(messages) = 3
    /\ Last(messages).role = "user"
    /\ Last(messages).content = <<Question>>
    /\ Last(calls).nposts = 0

\* C5: a submit whose query is empty or whitespace-only changes nothing:
\* no message, pending and sessionId unchanged, no call and no request
C5_EmptySubmitIsNoOp ==
    [][(op' \in {"handleSend", "handleSendRejected"}
            /\ trim(rendered.inputValue) = <<>>)
        => UNCHANGED <<messages, inputValue, isLoading, sessionId, calls>>
      ]_vars

\* a whitespace-only submit was rejected while idle, with a turn in the log
C5_Witness ==
    /\ op = "handleSendRejected"
    /\ rendered.inputValue = <<SP>>
    /\ ~rendered.isLoading
    /\ ~isLoading
    /\ Len(messages) = 2

\* the messages a call in the state c can fail with: the timeout text once
\* the controller has aborted, else what the phase it is in can raise
FailureMessages(c, t) ==
    IF c.phase = "auth" THEN {<<"Request timed out. Please try again.">>}
    ELSE IF c.phase = "fetch"
    THEN {<<"Network request failed">>}
         \cup (IF t >= c.start + 120000
                  THEN {<<"Request timed out. Please try again.">>} ELSE {})
    ELSE IF c.phase = "body" THEN {<<"JSON Parse error">>}
    ELSE {<<"Rate limit exceeded">>, <<"Server error: ", "500">>,
          <<"Cannot read property 'detail' of null">>}

\* C6: a failure of sendChatMessage appends exactly one assistant message
\* with isFallback = true and the apology text around the failure's
\* message, and leaves sessionId unchanged
C6_FailureBecomesFallbackMessage ==
    [][op' = "fail" =>
        /\ Len(messages') = Len(messages) + 1
        /\ Front(messages') = messages
        /\ Last(messages').role = "bot"
        /\ Last(messages').isFallback = TRUE
        /\ \E i \in InFlight :
              /\ calls'[i].phase = "done"
              /\ \E m \in FailureMessages(calls[i], now) :
                    Last(messages').content =
                        <<"I apologize, but I encountered an error: ">> \o m
                            \o <<". Please try again.">>
        /\ sessionId' = sessionId]_vars

\* a turn failed with the timeout message while a session id was stored
C6_Witness ==
    /\ op = "fail"
    /\ sessionId = FullResponse.session_id
    /\ Last(messages).isFallback
    /\ Last(messages).content =
          <<"I apologize, but I encountered an error: ",
            "Request timed out. Please try again.", ". Please try again.">>

\* C7: every send that enters Sending returns to Idle, and the closure the
\* next submit runs on sees it
C7_SendingReturnsToIdle == isLoading ~> (~isLoading /\ ~rendered.isLoading)

\* a second turn was accepted after the first one had failed
C7_Witness ==
    /\ op = "handleSend"
    /\ Len(calls) = 2
    /\ calls[1].phase = "done"
    /\ Len(messages) = 3
    /\ messages[2].isFallback

\* C8: a successful response appends exactly one assistant message with the
\* response's answer, its sources (empty when absent), its is_fallback
\* (false when absent) and its latency_ms, and pending becomes false
C8_SuccessAppendsAnswer ==
    [][op' = "succeed" =>
        /\ Len(messages') = Len(messages) + 1
        /\ Front(messages') = messages
        /\ Last(messages').role = "bot"
        /\ \E r \in Responses :
              /\ Last(messages').content = r.answer
              /\ Last(messages').sources =
                    (IF r.sources = None THEN <<>> ELSE r.sources[1])
              /\ Last(messages').isFallback = (r.is_fallback = Some(TRUE))
              /\ Last(messages').latency = r.latency_ms
        /\ ~isLoading']_vars

\* the response without sources and is_fallback was appended with defaults
C8_Witness ==
    /\ op = "succeed"
    /\ ~isLoading
    /\ Last(messages).content = BareResponse.answer
    /\ Last(messages).sources = <<>>
    /\ Last(messages).isFallback = FALSE

\* C9: reset() leaves an empty log, no sessionId and a fresh Idle state
C9_ResetIsFreshIdle ==
    op = "handleNewChat" =>
        /\ messages = <<>>
        /\ sessionId = None
        /\ ~isLoading
        /\ InFlight = {}

\* C10: a call that has not settled when its 120 seconds are over has its
\* timer callback due: no call outlives its deadline, in any phase
C10_NoCallOutlivesDeadline ==
    \A i \in InFlight :
        now >= deadline(calls[i]) => calls[i].timer = "armed"

\* C11: a call settles exactly once. A step that appends an answer or an
\* error settles exactly one call in flight and appends one message; a
\* settled call stays settled; the late response to an aborted POST changes
\* neither the log nor sessionId nor isLoading; once the fetch promise has
\* settled (status line received, or error) the timer is cleared, and the
\* timer callback marks as aborted, or fails with the timeout error, only a
\* call in flight whose timer is armed and due
C11_SettlesExactlyOnce ==
    [][/\ \A i \in 1..Len(calls) :
             calls[i].phase = "done" =>
                 /\ calls'[i].phase = "done"
                 /\ ~calls'[i].aborted
                 /\ calls'[i].nposts = calls[i].nposts
       /\ op' = "lateResponse" =>
             UNCHANGED <<messages, sessionId, isLoading, inputValue>>
       /\ op' \in {"succeed", "fail"} =>
             /\ Cardinality({i \in InFlight : calls'[i].phase = "done"}) = 1
             /\ Len(messages') = Len(messages) + 1
       /\ (messages' # messages \/ sessionId' # sessionId
               \/ isLoading' # isLoading) =>
             op' \in {"handleSend", "handleNewChat", "succeed", "fail"}
       /\ \A i \in 1..Len(calls') :
             calls'[i].phase \in {"body", "errbody", "done"} =>
                 calls'[i].timer = "cleared"
       /\ \A i \in 1..Len(calls) :
             (calls'[i].aborted /\ ~calls[i].aborted) =>
                 /\ op' = "abort"
                 /\ calls[i].phase = "auth"
                 /\ calls[i].timer = "armed" /\ now >= deadline(calls[i])
       /\ (op' = "fail"
               /\ Last(messages').content = errorContent(TimedOutMessage)) =>
             \E i \in InFlight :
                 /\ calls'[i].phase = "done"
                 /\ \/ calls[i].aborted
                    \/ /\ calls[i].phase = "fetch"
                       /\ calls[i].timer = "armed"
                       /\ now >= deadline(calls[i])
      ]_vars

\* the response to the POST of the first turn, which had timed out, came in
\* after the second turn had been answered: the log and sessionId are those
\* the second turn left
C11_Witness ==
    /\ op = "lateResponse"
    /\ Len(messages) = 4
    /\ messages[2].content = errorContent(TimedOutMessage)
    /\ messages[4].content = FullResponse.answer
    /\ sessionId = FullResponse.session_id
    /\ ~isLoading

\* C12: a non-success status makes sendChatMessage fail, never return: with
\* the body's detail when the body is a JSON value that has a non-empty
\* detail, and with "Server error: <status>" in every other case
C12_ErrorStatusFailsWithDetailOrStatus ==
    [][\A i \in InFlight :
          (calls[i].phase = "errbody" /\ calls'[i].phase = "done") =>
              /\ op' = "fail"
              /\ Last(messages').content =
                    errorContent(
                        IF /\ calls[i].body[1].kind = "object"
                           /\ calls[i].body[1].detail # None
                           /\ calls[i].body[1].detail[1] # <<>>
                        THEN calls[i].body[1].detail[1]
                        ELSE <<"Server error: ", ToString(calls[i].status)>>)
      ]_vars

\* C13 as stated: a call that has settled has issued exactly one POST
C13_ExactlyOnePost ==
    \A i \in 1..Len(calls) : calls[i].phase = "done" => calls[i].nposts = 1

\* C13 amended: a call issues at most one POST, the one it issues when the
\* credential read returns before the timer has fired; a call that settles
\* in a later phase has issued exactly one; a settled call issues none, and
\* only an accepted submit creates a call
C13_AtMostOnePost ==
    [][/\ \A i \in 1..Len(calls') : calls'[i].nposts <= 1
       /\ \A i \in 1..Len(calls) :
             /\ calls'[i].nposts >= calls[i].nposts
             /\ calls'[i].nposts > calls[i].nposts =>
                   /\ op' = "fetch"
                   /\ calls[i].phase = "auth" /\ ~calls[i].aborted
                   /\ calls[i].nposts = 0
                   /\ calls'[i].request # None
             /\ (calls[i].phase \notin {"auth", "done"}
                    /\ calls'[i].phase = "done") => calls'[i].nposts = 1
             /\ (calls[i].phase = "auth" /\ calls'[i].phase = "done") =>
                   calls[i].aborted /\ calls'[i].nposts = 0
       /\ Len(calls') # Len(calls) =>
             /\ op' = "handleSend"
             /\ Len(calls') = Len(calls) + 1
             /\ Last(calls').nposts = 0
      ]_vars

\* the first turn failed with a network error after its POST, and the second
\* turn, started by a new submit, has issued its own POST
C13_Witness ==
    /\ op = "fetch"
    /\ Len(calls) = 2
    /\ calls[1].phase = "done" /\ calls[1].nposts = 1
    /\ calls[2].phase = "fetch" /\ calls[2].nposts = 1
    /\ Len(messages) = 3
    /\ messages[2].content = errorContent(NetworkMessage)

\* C14: getAuthHeaders always returns: the mapping with Authorization
\* "Bearer <token>" when the read succeeds and the record is a credential
\* with a token, the empty mapping in every other case; and a call whose
\* credential read has settled issues its POST with these headers, without
\* Authorization whenever the record is not such a credential
C14_HeadersFollowStore ==
    [][/\ op' = "getAuthHeaders" =>
             /\ ret'.outcome = "returned"
             /\ \A u \in Credentials :
                   (ret'.ok /\ store = Some(JSONstringify(u))) =>
                       ret'.value = [Authorization |-> <<"Bearer ", u.token>>]
             /\ (~ret'.ok
                    \/ \A u \in Credentials : store # Some(JSONstringify(u)))
                  => ret'.value = <<>>
       /\ \A i \in 1..Len(calls) :
             (calls[i].phase = "auth" /\ calls'[i] # calls[i]) =>
                 /\ calls'[i].phase = "fetch"
                 /\ calls'[i].nposts = 1
                 /\ calls'[i].request # None
                 /\ calls'[i].request[1].body.query = calls[i].query
                 /\ \/ calls'[i].request[1].headers = <<>>
                    \/ \E u \in Credentials :
                          /\ store = Some(JSONstringify(u))
                          /\ calls'[i].request[1].headers =
                                [Authorization |-> <<"Bearer ", u.token>>]
      ]_vars

\* the record is corrupt and the turn has issued its POST without
\* Authorization
C14_Witness ==
    /\ op = "fetch"
    /\ store = Some(CorruptText)
    /\ Len(calls) = 1
    /\ calls[1].nposts = 1
    /\ calls[1].request[1].headers = <<>>

\* C15: getChatSessions never throws: it returns the parsed body of a
\* success response, and the empty sequence on 401, on any other
\* non-success status, on a network error and on an unparseable body
C15_ListNeverFails ==
    op = "getChatSessions" =>
        /\ ret.outcome = "returned"
        /\ ret.value =
              IF /\ ret.arg.kind = "response"
                 /\ ret.arg.status \in 200..299
                 /\ ret.arg.body # None
              THEN ret.arg.body[1]
              ELSE <<>>

\* the server answered 500 and getChatSessions returned the empty sequence
C15_Witness ==
    /\ op = "getChatSessions"
    /\ ret.arg.kind = "response" /\ ret.arg.status = 500
    /\ ret.outcome = "returned"
    /\ ret.value = <<>>

\* C16: getChatSession and deleteChatSession throw on every non-success
\* status, 401 included
C16_ItemCallsFailOnErrorStatus ==
    (/\ op \in {"getChatSession", "deleteChatSession"}
     /\ ret.arg.kind = "response"
     /\ ret.arg.status \notin 200..299)
        => ret.outcome = "threw"

\* the server answered 401 to getChatSession and the call threw
C16_Witness ==
    /\ op = "getChatSession"
    /\ ret.arg.kind = "response" /\ ret.arg.status = 401
    /\ ret.outcome = "threw"
    /\ ret.value = SessionMessage

\* C19: getUser after a successful saveUser(c) of a well-formed credential
\* returns c, whatever the record held before the save; getUser after a
\* successful clearUser returns null (the reads themselves succeeding)
C19_SaveLoadRoundTrip ==
    [][/\ (/\ op = "saveUser" /\ ret.outcome = "returned"
            /\ ret.arg[1] \in Credentials
            /\ op' = "getUser" /\ ret'.ok)
           => (ret'.outcome = "returned" /\ ret'.value = Some(ret.arg[1]))
       /\ (op = "clearUser" /\ ret.outcome = "returned" /\ op' = "getUser")
           => (ret'.outcome = "returned" /\ ret'.value = None)
      ]_vars

\* getUser has returned the sign-in credential, which only a saveUser can
\* have stored: it has no name field
C19_Witness ==
    /\ op = "getUser"
    /\ ret.ok
    /\ ret.value = Some(StoredUser)
    /\ store = Some(JSONstringify(StoredUser))

\* C20: getUser never throws: it returns null when the read fails, when
\* there is no record and when the text does not parse, and the stored
\* record otherwise
C20_LoadNeverFails ==
    op = "getUser" =>
        /\ ret.outcome = "returned"
        /\ LET held == {u \in Credentials \cup {TokenlessUser, EmptyTokenUser} :
                           store = Some(JSONstringify(u))}
           IN  IF ret.ok /\ held # {}
               THEN \E u \in held : ret.value = Some(u)
               ELSE ret.value = None

\* the record was corrupt and getUser returned null
C20_Witness ==
    /\ op = "getUser"
    /\ ret.ok
    /\ store = Some(CorruptText)
    /\ ret.outcome = "returned"
    /\ ret.value = None

\* the number of citations a bubble is given
sourceCount(message) ==
    IF "sources" \in DOMAIN message THEN Len(message.sources) ELSE 0

\* the rendered bubbles of assistant messages, fallback or not
Classified(fallback) ==
    {k \in 1..Len(bubbles) :
        messages[k].role = "bot" /\ messages[k].isFallback = fallback}

\* C17: a fallback message is classified low, 0, "No match found", with
\* any number of citations
C17_FallbackIsLowZero ==
    op = "renderBubbles" =>
        \A k \in Classified(TRUE) :
            bubbles[k] =
                Some([level |-> "low", value |-> 0, text |-> "No match found"])

\* a fallback message with three or more citations was rendered with 0
C17_Witness ==
    /\ op = "renderBubbles"
    /\ \E k \in Classified(TRUE) :
          /\ sourceCount(messages[k]) >= 3
          /\ bubbles[k][1].value = 0

\* C18: a message that is not a fallback is classified low/30 with no
\* citation, medium/60 with one or two, high/85 with three or more; two
\* messages with the same isFallback and the same number of citations get
\* the same classification; the score does not decrease with the number
C18_ClassifiedByCitations ==
    op = "renderBubbles" =>
        /\ \A k \in Classified(FALSE) :
              /\ bubbles[k] # None
              /\ bubbles[k][1].level =
                    (IF sourceCount(messages[k]) = 0 THEN "low"
                     ELSE IF sourceCount(messages[k]) <= 2 THEN "medium"
                     ELSE "high")
              /\ bubbles[k][1].value =
                    (IF sourceCount(messages[k]) = 0 THEN 30
                     ELSE IF sourceCount(messages[k]) <= 2 THEN 60
                     ELSE 85)
        /\ \A f \in BOOLEAN : \A j, k \in Classified(f) :
              sourceCount(messages[j]) = sourceCount(messages[k])
                  => bubbles[j] = bubbles[k]
        /\ \A j, k \in Classified(FALSE) :
              sourceCount(messages[j]) <= sourceCount(messages[k])
                  => bubbles[j][1].value <= bubbles[k][1].value

\* an answer with two citations was rendered medium/60 next to one with
\* three rendered high/85
C18_Witness ==
    /\ op = "renderBubbles"
    /\ \E j, k \in Classified(FALSE) :
          /\ sourceCount(messages[j]) = 2 /\ bubbles[j][1].value = 60
          /\ sourceCount(messages[k]) = 3 /\ bubbles[k][1].value = 85

\* C24: apart from handleNewChat, every step leaves the log as it is or
\* adds one message at its end; the messages it holds keep their content
\* and their order
C24_LogIsAppendOnly ==
    [][op' # "handleNewChat" =>
          \/ messages' = messages
          \/ /\ op' \in {"handleSend", "succeed", "fail"}
             /\ Len(messages') = Len(messages) + 1
             /\ SubSeq(messages', 1, Len(messages)) = messages
      ]_vars

\* the failure of the second turn was appended behind the three messages
\* the log held
C24_Witness ==
    /\ op = "fail"
    /\ Len(messages) = 4
    /\ messages[1].role = "user" /\ messages[2].role = "bot"
    /\ messages[3].role = "user" /\ messages[4].isFallback

\* the user message handleSend appended for the call c is in the log
TurnInLog(c) ==
    \E k \in 1..Len(messages) :
        /\ messages[k].role = "user"
        /\ messages[k].id = c.start
        /\ messages[k].content = c.query

\* C27: a call whose conversation was reset while it was in flight (its
\* user message is no longer in the log) settles without adding a message
\* and without setting sessionId
C27_ResetInFlightStaysFresh ==
    [][\A i \in InFlight :
          (calls'[i].phase = "done" /\ ~TurnInLog(calls[i])) =>
              /\ messages' = messages
              /\ sessionId' = sessionId
      ]_vars

\* C28: with no reset, the log alternates user, assistant from a user
\* message on; it has even length when isLoading is false, and odd length
\* with a user message last when isLoading is true
C28_LogAlternates ==
    /\ \A k \in 1..Len(messages) :
          messages[k].role = IF k % 2 = 1 THEN "user" ELSE "bot"
    /\ ~isLoading => Len(messages) % 2 = 0
    /\ isLoading =>
          (Len(messages) % 2 = 1 /\ Last(messages).role = "user")

\* the first turn of a fresh session, from the submit of the example
\* question to the reply built from FullResponse
FirstTurn ==
    /\ (op' = "handleSend" /\ calls = <<>> /\ messages = <<>>)
          => /\ trim(rendered.inputValue) = <<Question>>
             /\ messages' = <<userMessage(<<Question>>, now)>>
             /\ calls'[1].query = <<Question>>
             /\ calls'[1].sessionId = None
    /\ (op' = "fetch" /\ Len(calls) >= 1 /\ calls'[1].nposts > calls[1].nposts)
          => calls'[1].request[1].body =
                 [query |-> <<Question>>, session_id |-> None]
    /\ (/\ op' = "succeed"
        /\ calls[1].phase = "body" /\ calls'[1].phase = "done"
        /\ messages = <<userMessage(<<Question>>, calls[1].start)>>
        /\ Last(messages').content = FullResponse.answer)
          => /\ Len(messages') = 2
             /\ messages'[1] = messages[1]
             /\ messages'[2].role = "bot"
             /\ messages'[2].isFallback = FALSE
             /\ Len(messages'[2].sources) = 1
             /\ ChatBubble(messages'[2]) =
                    Some([level |-> "medium", value |-> 60,
                          text |-> "Medium confidence"])
             /\ sessionId' = Some("abc123")

C26_OnlyAssistantClassified ==
    op = "renderBubbles" =>
        \A k \in 1..Len(bubbles) :
            /\ messages[k].role = "user" => bubbles[k] = None
            /\ messages[k].role = "bot" => bubbles[k] # None

\* a user message with three sources and isFallback true was rendered
\* beside an assistant message
C26_Witness ==
    /\ op = "renderBubbles"
    /\ \E j, k \in 1..Len(bubbles) :
          /\ messages[j].role = "user" /\ sourceCount(messages[j]) = 3
          /\ messages[j].isFallback /\ bubbles[j] = None
          /\ messages[k].role = "bot" /\ bubbles[k] # None

\* the log alternates user, assistant: no submit was made while a turn
\* was in flight
Alternates ==
    \A k \in 1..Len(messages) :
        messages[k].role = IF k % 2 = 1 THEN "user" ELSE "bot"

\* C23: the ids of a log are strictly increasing in log order; stated for
\* the logs of turns made one after the other, with a clock that moves
\* forward by single milliseconds
C23_IdsStrictlyIncreasing ==
    Alternates =>
        \A k \in 1..(Len(messages) - 1) : messages[k].id < messages[k + 1].id

\* the form does not pass the checks of handleSubmit
Invalid(mode, formData) ==
    \/ formData.email = ""
    \/ formData.password = <<>>
    \/ /\ mode = "register"
       /\ \/ formData.name = ""
          \/ formData.password # formData.confirmPassword
          \/ Len(formData.password) < 6

\* C29: a submit of a form that fails validation starts no call and leaves
\* the record, the route and isLoading as they are; a submit whose
\* registration, login or save fails leaves the record and the route as
\* they are and sets isLoading to false; both show an error; the route
\* changes to the chat only when a login has succeeded and was saved
C29_FailedSubmitChangesNothing ==
    [][/\ (op' \in {"handleSubmit", "handleSubmitInvalid"}
              /\ Invalid(auth.mode, auth.formData))
            => /\ op' = "handleSubmitInvalid"
               /\ submits' = submits
               /\ store' = store /\ route' = route
               /\ auth'.isLoading = auth.isLoading
               /\ auth'.error # <<>>
       /\ op' = "submitFailed"
            => /\ store' = store /\ route' = route
               /\ auth'.isLoading = FALSE
               /\ auth'.error # <<>>
       /\ route' # route
            => /\ op' = "signedIn"
               /\ \E i \in 1..Len(submits) :
                     /\ submits[i].phase = "save"
                     /\ submits'[i].phase = "done"
      ]_vars

\* a registration succeeded and the login after it was rejected: the record
\* and the route are as before, the form is not loading
C29_Witness ==
    /\ op = "submitFailed"
    /\ Len(submits) = 1
    /\ submits[1].mode = "register" /\ submits[1].phase = "done"
    /\ auth.error = <<"Invalid credentials">>
    /\ ~auth.isLoading
    /\ route = "/auth"
    /\ store \in {None, Some(JSONstringify(TokenlessUser))}

\* the record that the submission s saves when its login answered with the
\* access_token s.token: email and token, and the name for a registration
SavedRecord(s) ==
    IF s.mode = "signin"
    THEN [email |-> s.email, token |-> s.token[1]]
    ELSE [email |-> s.email, name |-> s.name, token |-> s.token[1]]

\* C21: the record changes only in the step in which handleSubmit saves
\* after a successful login (in sign-in mode, or after registerUser in
\* register mode), and then it is exactly the JSON text of { email, token }
\* or { email, name, token } with the access_token of that login, nothing
\* of the old record kept; or in a logout, which removes it
C21_WrittenBySignInRemovedByLogout ==
    [][/\ op' = "loggedIn" =>
            \A i \in 1..Len(submits) :
                submits'[i] # submits[i] =>
                    /\ submits[i].phase = "login"
                    /\ submits'[i].token \in {Some(t) : t \in Tokens}
       /\ store' # store =>
            \/ /\ op' = "signedIn"
               /\ \E i \in 1..Len(submits) :
                     /\ submits[i].phase = "save"
                     /\ submits'[i].phase = "done"
                     /\ store' = Some(JSONstringify(SavedRecord(submits[i])))
                     /\ JSONparse(store'[1]) = SavedRecord(submits[i])
            \/ /\ op' \in {"chat.handleLogout", "drawer.handleLogout"}
               /\ store' = None
      ]_vars

\* a registration was saved over a record without token, the chat screen
\* loaded it, and the logout of the chat screen removed it
C21_Witness ==
    /\ op = "chat.handleLogout"
    /\ store = None
    /\ chatUser = Some([email |-> Email, name |-> Name, token |-> "tok2"])

\* C22: while isLoading is true no step changes the record
C22_StoreUntouchedWhileSending ==
    [][isLoading => store' = store]_vars

\* the drawer is at rest with no user: user is null, the effect on [user]
\* has run and no logout of the drawer is half done
NoUserLoaded ==
    /\ drawer.user = None
    /\ ~drawer.effectDue
    /\ TasksOf("drawer.handleLogout") = {}

====
